---- MODULE Spec2Model ----
(***************************************************************************)
(* vgexplorer: a file-browser panel attached to a running (neo)vim server. *)
(*                                                                         *)
(* Spec models the processes started from main(): GUI-mode instances with  *)
(* their listener thread (Daemon), toggle-mode clients (run_toggle), the   *)
(* Unix datagram endpoints under SERVER_PREFIX and the editor bridge.      *)
(***************************************************************************)
EXTENDS Integers, Sequences, FiniteSets, TLC

(***************************************************************************)
(* Bounds of the model.                                                    *)
(***************************************************************************)
NumProcs == 2          \* processes that may be launched from main()
MaxExternal == 2       \* datagrams sent by tools other than run_toggle
MaxQueue == 2          \* datagrams waiting in one socket's receive queue

Procs == 1..NumProcs
ServerNames == {"x", "y"}

(***************************************************************************)
(* Text and bytes.  A text is a sequence of code points, a datagram a      *)
(* sequence of bytes.                                                      *)
(***************************************************************************)
ToggleText == <<116, 111, 103, 103, 108, 101>>      \* "toggle"

RecvBufSize == 1024

\* str.encode("utf-8") for code points below 0x800
RECURSIVE Utf8Encode(_)
Utf8Encode(text) ==
    IF text = <<>> THEN <<>>
    ELSE LET c == Head(text) IN
         (IF c < 128 THEN <<c>>
          ELSE <<192 + (c \div 64), 128 + (c % 64)>>) \o Utf8Encode(Tail(text))

\* bytes.decode("utf-8") for one- and two-byte forms: ok = FALSE stands for
\* UnicodeDecodeError
RECURSIVE Utf8Decode(_)
Utf8Decode(bytes) ==
    IF bytes = <<>> THEN [ok |-> TRUE, text |-> <<>>]
    ELSE LET b == Head(bytes) IN
         IF b < 128
         THEN LET r == Utf8Decode(Tail(bytes)) IN
              [ok |-> r.ok, text |-> IF r.ok THEN <<b>> \o r.text ELSE <<>>]
         ELSE IF b \in 194..223 /\ Len(bytes) >= 2 /\ bytes[2] \in 128..191
         THEN LET r == Utf8Decode(Tail(Tail(bytes))) IN
              [ok |-> r.ok,
               text |-> IF r.ok THEN <<(b - 192) * 64 + (bytes[2] - 128)>> \o r.text
                        ELSE <<>>]
         ELSE [ok |-> FALSE, text |-> <<>>]

\* socket.recv(1024) on a datagram socket: the datagram cut to the buffer size
Recv(datagram) ==
    IF Len(datagram) <= RecvBufSize THEN datagram
    ELSE SubSeq(datagram, 1, RecvBufSize)

\* the payloads a sender may put on the wire: "toggle", "", "toggle\n",
\* U+00E9 ("\xc3\xa9") and a lone 0xff
Payloads ==
    { Utf8Encode(ToggleText),
      <<>>,
      Utf8Encode(ToggleText) \o <<10>>,
      Utf8Encode(<<233>>),
      <<255>> }

(***************************************************************************)
(* Addresses of the control endpoints.                                     *)
(***************************************************************************)
SERVER_PREFIX == "/tmp/vgexplorer-"

\* f"{SERVER_PREFIX}{server_name}"
SocketName(server_name) == <<SERVER_PREFIX, server_name>>

Addresses == {SocketName(s) : s \in ServerNames}

(***************************************************************************)
(* State.                                                                  *)
(***************************************************************************)
VARIABLES
    args,         \* args[p]: the parsed command line (toggle, server_name)
    pc,           \* pc[p]: where the main thread of process p is in main()
    exitStatus,   \* exitStatus[p]: "none" while running, else "0", "1", "SIGINT",
                  \*   "SIGSEGV"
    stderr,       \* stderr[p]: exceptions printed as tracebacks by process p
    peer,         \* peer[p]: the socket run_toggle's client is connected to (0: none)
    dpc,          \* dpc[p]: where the Daemon thread of process p is in run()
    sockfile,     \* sockfile[a]: {} no file at a, {p} the bound socket of p,
                  \*   {0} the socket of a run that ended before the first step
    sock,         \* sock[p]: self.server of p's Daemon: "none", "open", "closed"
    queue,        \* queue[p]: datagrams waiting in self.server of p
    toggleRecv,   \* toggleRecv[p]: datagrams returned by recv that are b"toggle"
    otherRecv,    \* otherRecv[p]: the other datagrams returned by recv
    callbacks,    \* callbacks[p]: invocations of main.toggle_show by the Daemon
    seen,         \* seen[p]: what isHidden() returned inside toggle_show
    window,       \* window[p]: "none" before self.show(), then "shown" / "hidden"
    root,         \* root[p]: the root path of the tree, "none" before setRootPath
    effects,      \* effects[p]: kinds of effect process p has had so far
    sent,         \* sent[p]: datagrams sent by run_toggle in process p
    externalSent, \* datagrams sent by other tools
    cwdStatus,    \* cwdStatus[p]: exit status of the editor command run by get_cwd
    started,      \* the processes whose Daemon was started, in that order
    found,        \* found[p]: os.path.exists in run() found an endpoint
    overlap,      \* overlap[p]: p's bind sequence overlapped another one's for
                  \*   the same address
    fs,           \* the file system: its nodes and what each is
    clipboard,    \* the URLs of the clipboard's mime data
    last,         \* the last handler the panel ran, with its inputs
    stdout,       \* what that handler printed
    dialog,       \* the message box that handler showed
    raised,       \* the exception that handler raised
    running,      \* the panel's process is running
    enclosing     \* enclosing_dir as show_menu last computed it

procVars == <<args, pc, exitStatus, stderr, peer, dpc, sockfile, sock, queue,
          toggleRecv, otherRecv, callbacks, seen, window, root, effects, sent,
          externalSent, cwdStatus, started, found, overlap>>

panelVars == <<fs, clipboard, last, stdout, dialog, raised, running, enclosing>>

vars == <<procVars, panelVars>>

histVars == <<cwdStatus, started, found, overlap>>
mainVars == <<args, pc, exitStatus, peer>>
daemonVars == <<dpc, toggleRecv, otherRecv, callbacks, seen>>
guiVars == <<window, root>>

\* the working directory a reachable editor answers with
EditorCwds == {"/home/u"}

ProcInit ==
    /\ args = [p \in Procs |-> [toggle |-> FALSE, server_name |-> "x"]]
    /\ pc = [p \in Procs |-> "init"]
    /\ exitStatus = [p \in Procs |-> "none"]
    /\ stderr = [p \in Procs |-> {}]
    /\ peer = [p \in Procs |-> 0]
    /\ dpc = [p \in Procs |-> "none"]
    /\ sockfile \in [Addresses -> {{}, {0}}]
    /\ sock = [p \in Procs |-> "none"]
    /\ queue = [p \in Procs |-> <<>>]
    /\ toggleRecv = [p \in Procs |-> 0]
    /\ otherRecv = [p \in Procs |-> 0]
    /\ callbacks = [p \in Procs |-> 0]
    /\ seen = [p \in Procs |-> "none"]
    /\ window = [p \in Procs |-> "none"]
    /\ root = [p \in Procs |-> "none"]
    /\ effects = [p \in Procs |-> {}]
    /\ sent = [p \in Procs |-> 0]
    /\ externalSent = 0
    /\ cwdStatus = [p \in Procs |-> "none"]
    /\ started = <<>>
    /\ found = [p \in Procs |-> FALSE]
    /\ overlap = [p \in Procs |-> FALSE]

(***************************************************************************)
(* The endpoint namespace as the system calls see it.                      *)
(***************************************************************************)
\* os.path.exists(self.socket_name)
PathExists(a) == sockfile[a] # {}

\* is some live process holding the socket the file at a names?
Listening(a) == \E o \in Procs : sockfile[a] = {o} /\ sock[o] = "open"

\* client.connect(address): the exception raised, "ok" when connected
ConnectResult(a) ==
    IF ~PathExists(a) THEN "FileNotFoundError"
    ELSE IF ~Listening(a) THEN "ConnectionRefusedError"
    ELSE "ok"

\* client.send(data) on a connected datagram socket
SendResult(o) == IF sock[o] = "open" THEN "ok" ELSE "ConnectionRefusedError"

\* an uncaught exception, or sys.exit(code), ends the process: its socket is
\* closed by the kernel, the socket file stays
EndProcess(p, status) ==
    /\ pc' = [pc EXCEPT ![p] = "exited"]
    /\ exitStatus' = [exitStatus EXCEPT ![p] = status]
    /\ sock' = [sock EXCEPT ![p] = IF @ = "open" THEN "closed" ELSE @]
    /\ queue' = [queue EXCEPT ![p] = <<>>]
    /\ dpc' = [dpc EXCEPT ![p] = IF @ = "none" THEN "none" ELSE "gone"]
    /\ window' = [window EXCEPT ![p] = "none"]
    /\ root' = [root EXCEPT ![p] = "none"]
    /\ seen' = [seen EXCEPT ![p] = "none"]

\* as ToggleExit, were the exception caught and ignored around run_toggle
ToggleExitSwallowed(result) == "0"

\* as CheckOutput, were the exit status of the editor command not checked
CheckOutputUnchecked(returncode, output) ==
    [raised |-> FALSE, out |-> IF returncode = "0" THEN output ELSE ""]

\* as MainBranch, were the toggle branch missing
MainBranchGuiOnly(toggle) == "get_cwd"

\* as MainBranch, were the listener started before the panel is constructed
MainBranchDaemonFirst(toggle) == IF toggle THEN "run_toggle" ELSE "start_daemon"

\* main in toggle mode: an exception out of run_toggle is uncaught (status 1),
\* otherwise sys.exit(0)
ToggleExit(result) == IF result = "ok" THEN "0" ELSE "1"

\* subprocess.check_output: raises CalledProcessError unless the command
\* exits with status 0, else returns its output
CheckOutput(returncode, output) ==
    IF returncode = "0" THEN [raised |-> FALSE, out |-> output]
    ELSE [raised |-> TRUE, out |-> ""]

\* if args.toggle: run_toggle(...); sys.exit(0) / else the GUI
MainBranch(toggle) == IF toggle THEN "run_toggle" ELSE "get_cwd"

(***************************************************************************)
(* main()                                                                  *)
(***************************************************************************)
\* processes are numbered in the order they are launched
Launch(p, toggle, name) ==
    /\ pc[p] = "init"
    /\ \A q \in Procs : q < p => pc[q] # "init"
    /\ args' = [args EXCEPT ![p] = [toggle |-> toggle, server_name |-> name]]
    /\ pc' = [pc EXCEPT ![p] = MainBranch(toggle)]
    /\ UNCHANGED <<exitStatus, stderr, peer, sockfile, sock, queue, daemonVars,
                   guiVars, effects, sent, externalSent, histVars, panelVars>>

\* run_toggle: socket() and connect()
RunToggleConnect(p) ==
    /\ pc[p] = "run_toggle"
    /\ LET r == ConnectResult(SocketName(args[p].server_name)) IN
       IF r = "ok"
       THEN /\ peer' = [peer EXCEPT ![p] =
                         CHOOSE o \in Procs : sockfile[SocketName(args[p].server_name)] = {o}]
            /\ pc' = [pc EXCEPT ![p] = "send"]
            /\ UNCHANGED <<exitStatus, stderr, sock, queue, dpc, window, root, seen>>
       ELSE /\ stderr' = [stderr EXCEPT ![p] = @ \cup {r}]
            /\ EndProcess(p, ToggleExit(r))
            /\ UNCHANGED peer
    /\ UNCHANGED <<args, sockfile, toggleRecv, otherRecv, callbacks, effects, sent,
                   externalSent, histVars, panelVars>>

\* run_toggle: send(), then sys.exit(0) in main
RunToggleSend(p) ==
    /\ pc[p] = "send"
    /\ LET r == SendResult(peer[p]) IN
       IF r = "ok"
       THEN /\ Len(queue[peer[p]]) < MaxQueue
            /\ pc' = [pc EXCEPT ![p] = "exited"]
            /\ exitStatus' = [exitStatus EXCEPT ![p] = ToggleExit(r)]
            /\ queue' = [queue EXCEPT ![peer[p]] = Append(@, Utf8Encode(ToggleText))]
            /\ sent' = [sent EXCEPT ![p] = @ + 1]
            /\ UNCHANGED <<stderr, sock, dpc, window, root, seen>>
       ELSE /\ stderr' = [stderr EXCEPT ![p] = @ \cup {r}]
            /\ EndProcess(p, ToggleExit(r))
            /\ UNCHANGED sent
    /\ UNCHANGED <<args, peer, sockfile, toggleRecv, otherRecv, callbacks, effects,
                   externalSent, histVars, panelVars>>

\* app = QApplication([]); vgexplorer = VGExplorer(app, config): get_cwd runs
\* the editor command (an unreachable editor makes it exit non-zero); neither
\* __init__ nor main catches what check_output raises.  Otherwise the tree is
\* rooted at the answer and the window is shown.
GetCwd(p, returncode, reply) ==
    /\ pc[p] = "get_cwd"
    /\ cwdStatus' = [cwdStatus EXCEPT ![p] = returncode]
    /\ LET path == CheckOutput(returncode, reply) IN
       IF ~path.raised
       THEN /\ root' = [root EXCEPT ![p] = path.out]
            /\ window' = [window EXCEPT ![p] = "shown"]
            /\ effects' = [effects EXCEPT ![p] = @ \cup {"gui", "editor", "rooted", "shown"}]
            /\ pc' = [pc EXCEPT ![p] = "start_daemon"]
            /\ UNCHANGED <<exitStatus, stderr, sock, queue, dpc, seen>>
       ELSE /\ stderr' = [stderr EXCEPT ![p] = @ \cup {"CalledProcessError"}]
            /\ effects' = [effects EXCEPT ![p] = @ \cup {"gui", "editor"}]
            /\ EndProcess(p, "1")
    /\ UNCHANGED <<args, peer, sockfile, toggleRecv, otherRecv, callbacks, sent,
                   externalSent, started, found, overlap, panelVars>>

\* the Daemon threads now between os.path.exists and bind for address a
Binding(a) ==
    {q \in Procs : dpc[q] \in {"exists", "unlink", "bind"}
                   /\ SocketName(args[q].server_name) = a}

\* daemon = Daemon(args.server_name, vgexplorer); daemon.start(); app.exec_()
StartDaemon(p) ==
    /\ pc[p] = "start_daemon"
    /\ pc' = [pc EXCEPT ![p] = "exec"]
    /\ dpc' = [dpc EXCEPT ![p] = "exists"]
    /\ effects' = [effects EXCEPT ![p] = @ \cup {"daemon"}]
    /\ started' = Append(started, p)
    /\ LET others == Binding(SocketName(args[p].server_name)) IN
       overlap' = [q \in Procs |->
                     IF q = p THEN others # {}
                     ELSE overlap[q] \/ q \in others]
    /\ UNCHANGED <<args, exitStatus, stderr, peer, sockfile, sock, queue,
                   toggleRecv, otherRecv, callbacks, seen, guiVars, sent,
                   externalSent, cwdStatus, found, panelVars>>

(***************************************************************************)
(* Daemon.run()                                                            *)
(***************************************************************************)
\* an exception in run() ends the thread, not the process
DaemonRaise(p, exception) ==
    /\ dpc' = [dpc EXCEPT ![p] = "dead"]
    /\ stderr' = [stderr EXCEPT ![p] = @ \cup {exception}]

\* as DaemonExists, were an endpoint that is found never unlinked
DaemonExistsNoUnlink(p) ==
    /\ dpc[p] = "exists"
    /\ dpc' = [dpc EXCEPT ![p] = "bind"]
    /\ found' = [found EXCEPT ![p] = PathExists(SocketName(args[p].server_name))]
    /\ UNCHANGED <<mainVars, stderr, sockfile, sock, queue, toggleRecv, otherRecv,
                   callbacks, seen, guiVars, effects, sent, externalSent, cwdStatus,
                   started, overlap, panelVars>>

\* if os.path.exists(self.socket_name):
DaemonExists(p) ==
    /\ dpc[p] = "exists"
    /\ dpc' = [dpc EXCEPT ![p] =
                IF PathExists(SocketName(args[p].server_name)) THEN "unlink" ELSE "bind"]
    /\ found' = [found EXCEPT ![p] = PathExists(SocketName(args[p].server_name))]
    /\ UNCHANGED <<mainVars, stderr, sockfile, sock, queue, toggleRecv, otherRecv,
                   callbacks, seen, guiVars, effects, sent, externalSent, cwdStatus,
                   started, overlap, panelVars>>

\* os.unlink(self.socket_name)
DaemonUnlink(p) ==
    /\ dpc[p] = "unlink"
    /\ LET a == SocketName(args[p].server_name) IN
       IF PathExists(a)
       THEN /\ sockfile' = [sockfile EXCEPT ![a] = {}]
            /\ effects' = [effects EXCEPT ![p] = @ \cup {"unlink"}]
            /\ dpc' = [dpc EXCEPT ![p] = "bind"]
            /\ UNCHANGED stderr
       ELSE /\ DaemonRaise(p, "FileNotFoundError")
            /\ UNCHANGED <<sockfile, effects>>
    /\ UNCHANGED <<mainVars, sock, queue, toggleRecv, otherRecv, callbacks, seen,
                   guiVars, sent, externalSent, histVars, panelVars>>

\* self.server = socket.socket(AF_UNIX, SOCK_DGRAM); self.server.bind(...)
DaemonBind(p) ==
    /\ dpc[p] = "bind"
    /\ LET a == SocketName(args[p].server_name) IN
       IF ~PathExists(a)
       THEN /\ sockfile' = [sockfile EXCEPT ![a] = {p}]
            /\ sock' = [sock EXCEPT ![p] = "open"]
            /\ effects' = [effects EXCEPT ![p] = @ \cup {"bind"}]
            /\ dpc' = [dpc EXCEPT ![p] = "recv"]
            /\ UNCHANGED stderr
       ELSE /\ DaemonRaise(p, "OSError")
            /\ UNCHANGED <<sockfile, sock, effects>>
    /\ UNCHANGED <<mainVars, queue, toggleRecv, otherRecv, callbacks, seen,
                   guiVars, sent, externalSent, histVars, panelVars>>

\* as IsToggle, were the test data.decode("utf-8").startswith("toggle")
IsTogglePrefix(text) ==
    Len(text) >= Len(ToggleText) /\ SubSeq(text, 1, Len(ToggleText)) = ToggleText

\* data.decode("utf-8") == "toggle"
IsToggle(text) == text = ToggleText

\* data = self.server.recv(1024); if data.decode("utf-8") == "toggle":
\*     self.main.toggle_show()   (the call; its body is the next two steps)
DaemonRecv(p) ==
    /\ dpc[p] = "recv"
    /\ queue[p] # <<>>
    /\ LET data == Recv(Head(queue[p]))
           decoded == Utf8Decode(data) IN
       /\ queue' = [queue EXCEPT ![p] = Tail(@)]
       /\ IF data = Utf8Encode(ToggleText)
          THEN /\ toggleRecv' = [toggleRecv EXCEPT ![p] = @ + 1]
               /\ UNCHANGED otherRecv
          ELSE /\ otherRecv' = [otherRecv EXCEPT ![p] = @ + 1]
               /\ UNCHANGED toggleRecv
       /\ IF ~decoded.ok
          THEN /\ DaemonRaise(p, "UnicodeDecodeError")
               /\ UNCHANGED callbacks
          ELSE IF IsToggle(decoded.text)
          THEN /\ callbacks' = [callbacks EXCEPT ![p] = @ + 1]
               /\ dpc' = [dpc EXCEPT ![p] = "toggle_show"]
               /\ UNCHANGED stderr
          ELSE UNCHANGED <<callbacks, dpc, stderr>>
    /\ UNCHANGED <<mainVars, sockfile, sock, seen, guiVars, effects, sent,
                   externalSent, histVars, panelVars>>

\* toggle_show on the Daemon thread: if self.isHidden():
ToggleShowTest(p) ==
    /\ dpc[p] = "toggle_show"
    /\ seen' = [seen EXCEPT ![p] = window[p]]
    /\ dpc' = [dpc EXCEPT ![p] = "show_or_hide"]
    /\ UNCHANGED <<mainVars, stderr, sockfile, sock, queue, toggleRecv, otherRecv,
                   callbacks, guiVars, effects, sent, externalSent, histVars, panelVars>>

\* what a call of QWidget.show() or hide() made outside the GUI thread, while
\* the GUI thread runs its event loop on the same widget, may come to: the
\* change is made, the widget is left as it was, or the process crashes
ToggleOutcomes == {"done", "lost", "abort"}

\* what show() or hide() is to make of the visibility that isHidden() gave
Flipped(visibility) == IF visibility = "hidden" THEN "shown" ELSE "hidden"

\* toggle_show on the Daemon thread: self.show() / self.hide()
ToggleShowAct(p, outcome) ==
    /\ dpc[p] = "show_or_hide"
    /\ IF outcome = "abort"
       THEN /\ EndProcess(p, "SIGSEGV")
            /\ UNCHANGED <<args, peer>>
       ELSE /\ window' = [window EXCEPT ![p] =
                            IF outcome = "done" THEN Flipped(seen[p]) ELSE @]
            /\ seen' = [seen EXCEPT ![p] = "none"]
            /\ dpc' = [dpc EXCEPT ![p] = "recv"]
            /\ UNCHANGED <<mainVars, sock, queue, root>>
    /\ UNCHANGED <<stderr, sockfile, toggleRecv, otherRecv, callbacks, effects,
                   sent, externalSent, histVars, panelVars>>

(***************************************************************************)
(* The GUI thread inside app.exec_()                                       *)
(***************************************************************************)
\* QShortcut("Ctrl+T").activated -> self.hide
Hide(p) ==
    /\ pc[p] = "exec"
    /\ window[p] = "shown"
    /\ window' = [window EXCEPT ![p] = "hidden"]
    /\ UNCHANGED <<mainVars, stderr, sockfile, sock, queue, daemonVars, root,
                   effects, sent, externalSent, histVars, panelVars>>

\* app.exec_() returns and main calls sys.exit: the interpreter first joins
\* the Daemon thread, which is not a daemon thread (daemon is never set)
Quit(p) ==
    /\ pc[p] = "exec"
    /\ pc' = [pc EXCEPT ![p] = "join"]
    /\ UNCHANGED <<args, exitStatus, peer, stderr, sockfile, sock, queue,
                   daemonVars, guiVars, effects, sent, externalSent, histVars, panelVars>>

\* interpreter shutdown once the Daemon thread has ended
Exit(p) ==
    /\ pc[p] = "join"
    /\ dpc[p] = "dead"
    /\ EndProcess(p, "0")
    /\ UNCHANGED <<args, peer, stderr, sockfile, toggleRecv, otherRecv, callbacks,
                   effects, sent, externalSent, histVars, panelVars>>

\* signal.signal(SIGINT, SIG_DFL): Ctrl-C on a panel ends the process at once
Kill(p) ==
    /\ pc[p] \in {"exec", "join"}
    /\ EndProcess(p, "SIGINT")
    /\ UNCHANGED <<args, peer, stderr, sockfile, toggleRecv, otherRecv, callbacks,
                   effects, sent, externalSent, histVars, panelVars>>

(***************************************************************************)
(* Other senders: any tool that computes the address may send a datagram.  *)
(***************************************************************************)
ExternalSend(a, payload) ==
    /\ externalSent < MaxExternal
    /\ Listening(a)
    /\ LET o == CHOOSE q \in Procs : sockfile[a] = {q} IN
       /\ Len(queue[o]) < MaxQueue
       /\ queue' = [queue EXCEPT ![o] = Append(@, payload)]
    /\ externalSent' = externalSent + 1
    /\ UNCHANGED <<mainVars, stderr, dpc, sockfile, sock, toggleRecv, otherRecv,
                   callbacks, seen, guiVars, effects, sent, histVars, panelVars>>

(***************************************************************************)
(* Paths and the file system, for the panel's file actions.                *)
(*                                                                         *)
(* A path is a sequence of characters, as Python has it; a node of the     *)
(* file system is the sequence of its components below "/".                *)
(***************************************************************************)
MaxDepth == 2          \* components of the deepest node

Names == {<<"a">>, <<"b">>}

\* Optional values: Python's None and the others
None == [some |-> FALSE, val |-> <<>>]
Some(v) == [some |-> TRUE, val |-> v]

\* the components of a path, empty ones dropped as the kernel drops them
RECURSIVE SplitAcc(_, _, _)
SplitAcc(s, cur, acc) ==
    IF s = <<>> THEN (IF cur = <<>> THEN acc ELSE Append(acc, cur))
    ELSE IF Head(s) = "/"
    THEN SplitAcc(Tail(s), <<>>, IF cur = <<>> THEN acc ELSE Append(acc, cur))
    ELSE SplitAcc(Tail(s), Append(cur, Head(s)), acc)

Split(s) == SplitAcc(s, <<>>, <<>>)

\* the absolute path of a node, as QFileSystemModel.filePath gives it
RECURSIVE Str(_)
Str(node) ==
    IF node = <<>> THEN <<"/">>
    ELSE IF Len(node) = 1 THEN <<"/">> \o node[1]
    ELSE Str(SubSeq(node, 1, Len(node) - 1)) \o <<"/">> \o node[Len(node)]

HasSlash(s) == \E i \in DOMAIN s : s[i] = "/"

TrailingSlash(s) == s # <<>> /\ s[Len(s)] = "/"

\* os.path.join(a, b) for two strings
OsPathJoin(a, b) ==
    IF b # <<>> /\ b[1] = "/" THEN b
    ELSE IF a = <<>> \/ a[Len(a)] = "/" THEN a \o b
    ELSE a \o <<"/">> \o b

\* os.path.basename(p): what follows the last "/"
OsPathBasename(p) ==
    LET slashes == {i \in DOMAIN p : p[i] = "/"}
        cut == IF slashes = {} THEN 0
               ELSE CHOOSE i \in slashes : \A k \in slashes : k <= i
    IN SubSeq(p, cut + 1, Len(p))

\* str(Path(p).parent) for an absolute p
PathParent(p) ==
    LET node == Split(p) IN
    IF node = <<>> THEN <<"/">> ELSE Str(SubSeq(node, 1, Len(node) - 1))

\* every directory on the way to the last component is a directory
Walkable(f, node) ==
    \A i \in 0..(Len(node) - 1) :
        LET pre == SubSeq(node, 1, i) IN pre \in DOMAIN f /\ f[pre].kind = "dir"

\* the error of a path whose way is not Walkable
WalkError(f, node) ==
    IF \E i \in 0..(Len(node) - 1) :
           LET pre == SubSeq(node, 1, i) IN pre \in DOMAIN f /\ f[pre].kind # "dir"
    THEN "NotADirectoryError" ELSE "FileNotFoundError"

\* os.lstat succeeds: the path names an entry, a dangling symlink included
LExists(f, s) ==
    /\ s # <<>>
    /\ Walkable(f, Split(s))
    /\ Split(s) \in DOMAIN f
    /\ TrailingSlash(s) => f[Split(s)].kind = "dir"

\* os.stat, which follows symlinks: "dir", "file", or "none" when it fails
StatKind(f, s) ==
    IF ~LExists(f, s) THEN "none"
    ELSE LET e == f[Split(s)] IN
         IF e.kind = "symlink" THEN (IF e.data = "missing" THEN "none" ELSE "file")
         ELSE e.kind

\* as ReadData, were nothing read from the source
ReadDataNothing(f, s) == ""

\* the bytes read through a path that os.stat calls a file
ReadData(f, s) == f[Split(s)].data

OsPathExists(f, s) == StatKind(f, s) # "none"
OsPathIsdir(f, s) == StatKind(f, s) = "dir"
OsPathIsfile(f, s) == StatKind(f, s) = "file"

Dir == [kind |-> "dir", data |-> ""]
File(data) == [kind |-> "file", data |-> data]
Symlink(data) == [kind |-> "symlink", data |-> data]

\* the outcome of a call: the file system after it and the exception raised
Ok(f) == [fs |-> f, err |-> "none"]
Raise(f, exception) == [fs |-> f, err |-> exception]

\* f with node n set to entry e
Put(f, n, e) == [m \in DOMAIN f \cup {n} |-> IF m = n THEN e ELSE f[m]]

\* f without node n
Remove(f, n) == [m \in DOMAIN f \ {n} |-> f[m]]

\* os.mkdir(s)
OsMkdir(f, s) ==
    LET n == Split(s) IN
    IF s = <<>> THEN Raise(f, "FileNotFoundError")
    ELSE IF ~Walkable(f, n) THEN Raise(f, WalkError(f, n))
    ELSE IF n \in DOMAIN f THEN Raise(f, "FileExistsError")
    ELSE Ok(Put(f, n, Dir))

\* subprocess.run(["touch", s]): creates an empty file, through a dangling
\* symlink too; a failure of touch is not an exception of run
TouchCommand(f, s) ==
    LET n == Split(s) IN
    IF s = <<>> \/ ~Walkable(f, n) THEN Ok(f)
    ELSE IF n \in DOMAIN f
    THEN (IF f[n] = Symlink("missing") /\ ~TrailingSlash(s)
          THEN Ok(Put(f, n, Symlink(""))) ELSE Ok(f))
    ELSE IF TrailingSlash(s) THEN Ok(f)
    ELSE Ok(Put(f, n, File("")))

IsPrefix(a, b) == Len(a) <= Len(b) /\ SubSeq(b, 1, Len(a)) = a

\* os.rename(old, new)
OsRename(f, old, new) ==
    LET o == Split(old)
        n == Split(new) IN
    IF old = <<>> \/ new = <<>> THEN Raise(f, "FileNotFoundError")
    ELSE IF ~Walkable(f, o) THEN Raise(f, WalkError(f, o))
    ELSE IF o \notin DOMAIN f THEN Raise(f, "FileNotFoundError")
    ELSE IF ~Walkable(f, n) THEN Raise(f, WalkError(f, n))
    ELSE IF o = n THEN Ok(f)
    ELSE IF f[o].kind = "dir"
    THEN (IF IsPrefix(o, n) \/ o = <<>> THEN Raise(f, "OSError")
          ELSE IF n \in DOMAIN f /\ f[n].kind # "dir" THEN Raise(f, "NotADirectoryError")
          ELSE IF \E m \in DOMAIN f : m # n /\ IsPrefix(n, m) THEN Raise(f, "OSError")
          ELSE Ok([m \in {k \in DOMAIN f : ~IsPrefix(o, k)}
                         \cup {n \o SubSeq(k, Len(o) + 1, Len(k)) :
                                 k \in {k \in DOMAIN f : IsPrefix(o, k)}} |->
                     IF IsPrefix(n, m)
                     THEN f[o \o SubSeq(m, Len(n) + 1, Len(m))] ELSE f[m]]))
    ELSE IF TrailingSlash(old) \/ TrailingSlash(new) THEN Raise(f, "NotADirectoryError")
    ELSE IF n \in DOMAIN f /\ f[n].kind = "dir" THEN Raise(f, "IsADirectoryError")
    ELSE Ok(Put(Remove(f, o), n, f[o]))

\* shutil.copy2(src, dst) for a dst that is no directory: src is opened for
\* reading first, then dst for writing, which follows a symlink at dst
ShutilCopy2(f, src, dst) ==
    LET d == Split(dst) IN
    IF StatKind(f, src) = "none"
    THEN Raise(f, IF src # <<>> /\ ~Walkable(f, Split(src))
                  THEN WalkError(f, Split(src)) ELSE "FileNotFoundError")
    ELSE IF StatKind(f, src) = "dir" THEN Raise(f, "IsADirectoryError")
    ELSE IF dst = <<>> THEN Raise(f, "FileNotFoundError")
    ELSE IF ~Walkable(f, d) THEN Raise(f, WalkError(f, d))
    ELSE IF d \in DOMAIN f /\ f[d].kind = "dir" THEN Raise(f, "IsADirectoryError")
    ELSE IF TrailingSlash(dst) THEN Raise(f, "IsADirectoryError")
    ELSE IF d \in DOMAIN f /\ f[d].kind = "symlink"
    THEN Ok(Put(f, d, Symlink(ReadData(f, src))))
    ELSE Ok(Put(f, d, File(ReadData(f, src))))

(***************************************************************************)
(* VGExplorer: the file methods and the handlers of the tree's signals.    *)
(***************************************************************************)
\* as FindEnclosingDir, were a file answered with its own path
FindEnclosingDirSelf(f, path) ==
    IF OsPathIsdir(f, path) \/ OsPathIsfile(f, path) THEN Some(path) ELSE None

\* find_enclosing_dir(path): falls off its end, returning None, for a path
\* that is neither a directory nor a file
FindEnclosingDir(f, path) ==
    IF OsPathIsdir(f, path) THEN Some(path)
    ELSE IF OsPathIsfile(f, path) THEN Some(PathParent(path))
    ELSE None

\* get_dialog_str: the text of the input dialog, None when it was cancelled
\* or left empty
GetDialogStr(text, confirm) == IF confirm /\ text # <<>> THEN Some(text) ELSE None

\* what a handler did: the file system after it, the exception it raised,
\* what it printed and the message box it showed
Done(r, out, box) == [fs |-> r.fs, err |-> r.err, out |-> out, box |-> box]

\* as DestinationExists, were the test left out
DestinationExistsNever(f, dest_file) == FALSE

\* the test copy makes before it writes
DestinationExists(f, dest_file) == OsPathExists(f, dest_file)

\* copy(src_file, dest_dir); os.path.join raises TypeError for a dest_dir of None
Copy(f, src_file, dest_dir) ==
    IF ~dest_dir.some THEN Done(Raise(f, "TypeError"), "none", "none")
    ELSE LET dest_file == OsPathJoin(dest_dir.val, OsPathBasename(src_file)) IN
         IF DestinationExists(f, dest_file)
         THEN Done(Ok(f), "already exists, skipping", "none")
         ELSE Done(ShutilCopy2(f, src_file, dest_file), "Pasting", "none")

\* for src_url in mime_data.urls(): self.copy(src_url.path(), enclosing_dir)
RECURSIVE PasteUrls(_, _, _)
PasteUrls(f, urls, dest_dir) ==
    IF urls = <<>> THEN Done(Ok(f), "none", "none")
    ELSE LET r == Copy(f, Head(urls).path, dest_dir) IN
         IF r.err # "none" \/ Tail(urls) = <<>> THEN r
         ELSE PasteUrls(r.fs, Tail(urls), dest_dir)

\* mkdir(path)
Mkdir(f, path) == IF ~OsPathExists(f, path) THEN OsMkdir(f, path) ELSE Ok(f)

\* the names the create actions refuse: New Folder and New File test only
\* whether the dialog gave a name
CreateRejects(name) == FALSE

\* New Folder: path = get_dialog_str(...); if path: mkdir(join(enclosing_dir, path))
NewFolder(f, selected_path, path) ==
    LET enclosing_dir == FindEnclosingDir(f, selected_path) IN
    IF ~path.some THEN Done(Ok(f), "none", "none")
    ELSE IF CreateRejects(path.val) THEN Done(Ok(f), "none", "Filename cannot contain '/'")
    ELSE IF ~enclosing_dir.some THEN Done(Raise(f, "TypeError"), "none", "none")
    ELSE Done(Mkdir(f, OsPathJoin(enclosing_dir.val, path.val)), "none", "none")

\* New File: path = get_dialog_str(...); if path: touch(join(enclosing_dir, path))
NewFile(f, selected_path, path) ==
    LET enclosing_dir == FindEnclosingDir(f, selected_path) IN
    IF ~path.some THEN Done(Ok(f), "none", "none")
    ELSE IF CreateRejects(path.val) THEN Done(Ok(f), "none", "Filename cannot contain '/'")
    ELSE IF ~enclosing_dir.some THEN Done(Raise(f, "TypeError"), "none", "none")
    ELSE Done(TouchCommand(f, OsPathJoin(enclosing_dir.val, path.val)), "none", "none")

\* the names the rename action refuses: if "/" in path
RenameRejects(name) == HasSlash(name)

\* Rename: path = get_dialog_str(...); "/" in None raises TypeError
Rename(f, selected_path, path) ==
    LET enclosing_dir == FindEnclosingDir(f, selected_path) IN
    IF ~path.some THEN Done(Raise(f, "TypeError"), "none", "none")
    ELSE IF RenameRejects(path.val) THEN Done(Ok(f), "none", "Filename cannot contain '/'")
    ELSE IF ~enclosing_dir.some THEN Done(Raise(f, "TypeError"), "none", "none")
    ELSE Done(OsRename(f, selected_path, OsPathJoin(enclosing_dir.val, path.val)),
              "none", "none")

\* Paste: the clipboard's URLs are copied into the enclosing directory
Paste(f, selected_path, urls) ==
    PasteUrls(f, urls, FindEnclosingDir(f, selected_path))

\* QUrl(Path(selected_path).as_uri()): as_uri raises ValueError for a path
\* that is not absolute
AsUrl(path) ==
    IF path # <<>> /\ path[1] = "/" THEN Some([scheme |-> "file", path |-> path])
    ELSE None

\* a tree with two files, a directory and a dangling symlink
SampleFs ==
    [n \in {<<>>, <<<<"a">>>>, <<<<"b">>>>, <<<<"a">>, <<"a">>>>, <<<<"a">>, <<"b">>>>} |->
        IF n = <<<<"b">>>> THEN File("y")
        ELSE IF n = <<<<"a">>, <<"a">>>> THEN File("x")
        ELSE IF n = <<<<"a">>, <<"b">>>> THEN Symlink("missing")
        ELSE Dir]

\* the nodes the tree may show, now or after a change: those in a directory
\* of the sample tree
Nodes ==
    {n \in UNION {[1..d -> Names] : d \in 1..MaxDepth} :
        LET dir == SubSeq(n, 1, Len(n) - 1) IN
        dir \in DOMAIN SampleFs /\ SampleFs[dir].kind = "dir"}

\* filePath(indexAt(clickPos)): the path of an item, "" beside every item
SelectablePaths == {Str(n) : n \in Nodes} \cup {<<>>}

\* what the user may type into the input dialog
DialogTexts == {<<>>, <<"a">>, <<"b">>, <<"a", "/", "b">>, <<"/", "b">>}

\* how the input dialog may end: cancelled, or confirmed with a text
DialogInputs ==
    {[text |-> <<>>, confirm |-> FALSE]}
        \cup {[text |-> t, confirm |-> TRUE] : t \in DialogTexts}

NoCall == [op |-> "none", path |-> <<>>, name |-> None, editor |-> "none"]

\* the handler has returned, or raised: an exception out of a slot ends the
\* process or not, with the PyQt5 version.  show_menu computes enclosing_dir
\* before the menu opens; a double click reaches open_file without it.
Finish(call, result) ==
    LET r == result IN
    /\ running
    /\ \A n \in DOMAIN r.fs : Len(n) <= MaxDepth
    /\ last' = call
    /\ fs' = r.fs
    /\ stdout' = r.out
    /\ dialog' = r.box
    /\ raised' = r.err
    /\ running' \in (IF r.err = "none" THEN {TRUE} ELSE BOOLEAN)
    /\ enclosing' = IF call.op = "open" THEN enclosing
                    ELSE FindEnclosingDir(fs, call.path)

\* what open_file tells the user when the editor command fails: nothing, the
\* return value of subprocess.call is dropped
OpenFailureReport(status) == "none"

\* open_file (a double click, or Open in the menu): if os.path.isfile(path):
\*     subprocess.call([vim, "--servername", name, "--remote", path])
OpenFile(selected_path, status) ==
    /\ Finish([op |-> "open", path |-> selected_path, name |-> None,
               editor |-> IF OsPathIsfile(fs, selected_path) THEN status ELSE "none"],
              Done(Ok(fs), "none",
                   IF OsPathIsfile(fs, selected_path)
                   THEN OpenFailureReport(status) ELSE "none"))
    /\ UNCHANGED <<clipboard, procVars>>

MenuNewFolder(selected_path, text, confirm) ==
    /\ Finish([op |-> "New Folder", path |-> selected_path,
               name |-> GetDialogStr(text, confirm), editor |-> "none"],
              NewFolder(fs, selected_path, GetDialogStr(text, confirm)))
    /\ UNCHANGED <<clipboard, procVars>>

MenuNewFile(selected_path, text, confirm) ==
    /\ Finish([op |-> "New File", path |-> selected_path,
               name |-> GetDialogStr(text, confirm), editor |-> "none"],
              NewFile(fs, selected_path, GetDialogStr(text, confirm)))
    /\ UNCHANGED <<clipboard, procVars>>

MenuRename(selected_path, text, confirm) ==
    /\ Finish([op |-> "Rename", path |-> selected_path,
               name |-> GetDialogStr(text, confirm), editor |-> "none"],
              Rename(fs, selected_path, GetDialogStr(text, confirm)))
    /\ UNCHANGED <<clipboard, procVars>>

MenuCopy(selected_path) ==
    /\ Finish([op |-> "Copy", path |-> selected_path, name |-> None, editor |-> "none"],
              Done(IF AsUrl(selected_path).some THEN Ok(fs) ELSE Raise(fs, "ValueError"),
                   "none", "none"))
    /\ clipboard' = IF AsUrl(selected_path).some THEN <<AsUrl(selected_path).val>>
                    ELSE clipboard
    /\ UNCHANGED procVars

MenuPaste(selected_path) ==
    /\ Finish([op |-> "Paste", path |-> selected_path, name |-> None, editor |-> "none"],
              Paste(fs, selected_path, clipboard))
    /\ UNCHANGED <<clipboard, procVars>>

(***************************************************************************)
(* Initial states and the two specifications.                              *)
(***************************************************************************)
EmptyFs == [n \in {<<>>} |-> Dir]

PanelInit(filesystems) ==
    /\ fs \in filesystems
    /\ clipboard = <<>>
    /\ last = NoCall
    /\ stdout = "none"
    /\ dialog = "none"
    /\ raised = "none"
    /\ running = TRUE
    /\ enclosing = None

\* the processes of main(), beside a panel that is left alone
Init == ProcInit /\ PanelInit({EmptyFs})

\* one panel in its event loop over the sample tree
FSInit ==
    /\ ProcInit
    /\ \A a \in Addresses : sockfile[a] = {}
    /\ PanelInit({SampleFs})

Next ==
    \/ \E p \in Procs, toggle \in BOOLEAN, name \in ServerNames : Launch(p, toggle, name)
    \/ \E p \in Procs : RunToggleConnect(p)
    \/ \E p \in Procs : RunToggleSend(p)
    \/ \E p \in Procs, returncode \in {"0", "1"}, reply \in EditorCwds :
           GetCwd(p, returncode, reply)
    \/ \E p \in Procs : StartDaemon(p)
    \/ \E p \in Procs : DaemonExists(p)
    \/ \E p \in Procs : DaemonUnlink(p)
    \/ \E p \in Procs : DaemonBind(p)
    \/ \E p \in Procs : DaemonRecv(p)
    \/ \E p \in Procs : ToggleShowTest(p)
    \/ \E p \in Procs, outcome \in ToggleOutcomes : ToggleShowAct(p, outcome)
    \/ \E p \in Procs : Hide(p)
    \/ \E p \in Procs : Quit(p)
    \/ \E p \in Procs : Exit(p)
    \/ \E p \in Procs : Kill(p)
    \/ \E a \in Addresses, payload \in Payloads : ExternalSend(a, payload)

Spec == Init /\ [][Next]_vars

NextFS ==
    \/ \E path \in SelectablePaths, status \in {"opened", "unreachable"} :
           OpenFile(path, status)
    \/ \E path \in SelectablePaths, d \in DialogInputs :
           MenuNewFolder(path, d.text, d.confirm)
    \/ \E path \in SelectablePaths, d \in DialogInputs :
           MenuNewFile(path, d.text, d.confirm)
    \/ \E path \in SelectablePaths, d \in DialogInputs :
           MenuRename(path, d.text, d.confirm)
    \/ \E path \in SelectablePaths : MenuCopy(path)
    \/ \E path \in SelectablePaths : MenuPaste(path)

SpecFS == FSInit /\ [][NextFS]_vars

(***************************************************************************)
(* Properties of Spec.                                                     *)
(***************************************************************************)
Panels == {p \in Procs : pc[p] \in {"exec", "join"}}

\* the Daemon of p has left the bind sequence, whatever came of it
StartupFinished(p) == dpc[p] \in {"recv", "toggle_show", "show_or_hide", "dead"}

\* the Daemon of p is in its receive loop
Looping(p) == dpc[p] \in {"recv", "toggle_show", "show_or_hide"}

\* a toggle sent to the address of p now reaches the loop of p
Receives(p) ==
    /\ sockfile[SocketName(args[p].server_name)] = {p}
    /\ sock[p] = "open"
    /\ Looping(p)

\* C1: the listener has invoked toggle_show exactly as many times as it has
\* received datagrams whose payload is b"toggle": once for each of them and
\* never for another payload.
C1_CallbackPerToggle == \A p \in Procs : callbacks[p] = toggleRecv[p]

C1_Witness == \E p \in Procs : toggleRecv[p] >= 1 /\ otherRecv[p] >= 1

\* C2: a listener that has received datagrams, whatever their payloads, has
\* raised no error and is still in its loop, waiting for the next one.
C2_ListenerNeverStops ==
    \A p \in Panels :
        toggleRecv[p] + otherRecv[p] > 0 =>
            /\ Looping(p)
            /\ "UnicodeDecodeError" \notin stderr[p]

\* C3: when the bind sequences of two listeners for the same server name
\* overlapped and both have finished, exactly one of the two receives the
\* toggles sent from then on.
C3_ExactlyOneReceives ==
    \A p, q \in Panels :
        ( /\ p # q
          /\ args[p].server_name = args[q].server_name
          /\ overlap[p] /\ overlap[q]
          /\ StartupFinished(p) /\ StartupFinished(q) )
        => Cardinality({r \in {p, q} : Receives(r)}) = 1

\* C4: a listener that found an endpoint at its address, whose bind sequence
\* overlapped no other and after which no other listener was started, has
\* removed that endpoint, is bound at SERVER_PREFIX + server_name and receives
\* the toggles sent from then on.
C4_RebindSucceeds ==
    \A p \in Panels :
        ( /\ found[p]
          /\ ~overlap[p]
          /\ started[Len(started)] = p
          /\ StartupFinished(p) )
        => /\ {"unlink", "bind"} \subseteq effects[p]
           /\ Receives(p)

\* C5: the toggle client leaves connect() for send() exactly when a listener
\* holds the endpoint at SERVER_PREFIX + server_name; with no file there, or a
\* stale one, it prints the exception and exits with status 1 having sent
\* nothing.  It leaves send() by exiting, with status 0 exactly when the
\* datagram b"toggle" was put into the listener's socket, for no reply.
C5_ToggleExitStatus ==
    [][\A p \in Procs :
         /\ (pc[p] = "run_toggle" /\ pc'[p] # "run_toggle") =>
                IF Listening(SocketName(args[p].server_name))
                THEN pc'[p] = "send" /\ exitStatus'[p] = "none"
                ELSE /\ pc'[p] = "exited"
                     /\ exitStatus'[p] = "1"
                     /\ stderr'[p] \in {{"FileNotFoundError"}, {"ConnectionRefusedError"}}
                     /\ queue' = queue
         /\ (pc[p] = "send" /\ pc'[p] # "send") =>
                /\ pc'[p] = "exited"
                /\ exitStatus'[p] \in {"0", "1"}
                /\ exitStatus'[p] = "0" <=>
                       queue'[peer[p]] = Append(queue[peer[p]], Utf8Encode(ToggleText))
                /\ exitStatus'[p] = "1" => stderr'[p] # {} /\ queue' = queue
      ]_vars

C5_Witness ==
    \E p \in Procs :
        /\ args[p].toggle
        /\ exitStatus[p] = "1"
        /\ "ConnectionRefusedError" \in stderr[p]

\* C6: a process launched with --toggle has, at every point of its run and
\* after it, started no GUI, run no editor command, started no listener,
\* bound and unlinked no endpoint, and sent at most one datagram.
C6_ToggleModeOnlySends ==
    \A p \in Procs :
        args[p].toggle =>
            /\ effects[p] = {}
            /\ cwdStatus[p] = "none"
            /\ window[p] = "none" /\ root[p] = "none"
            /\ dpc[p] = "none" /\ sock[p] = "none"
            /\ \A k \in DOMAIN started : started[k] # p
            /\ sent[p] <= 1
            /\ pc[p] \in {"run_toggle", "send", "exited"}

C6_Witness == \E p \in Procs : args[p].toggle /\ pc[p] = "exited" /\ sent[p] = 1

\* C7: a process whose editor command for get_cwd exited non-zero has ended
\* with status 1 without rooting the tree, showing the window, starting the
\* listener or binding or unlinking an endpoint.
C7_CwdFailureAborts ==
    \A p \in Procs :
        cwdStatus[p] \notin {"none", "0"} =>
            /\ pc[p] = "exited" /\ exitStatus[p] = "1"
            /\ effects[p] \cap {"rooted", "shown", "daemon", "bind", "unlink"} = {}
            /\ window[p] = "none" /\ root[p] = "none"
            /\ dpc[p] = "none" /\ sock[p] = "none"

C7_Witness == \E p \in Procs : cwdStatus[p] = "1" /\ "CalledProcessError" \in stderr[p]

(***************************************************************************)
(* Properties of SpecFS.                                                   *)
(***************************************************************************)
\* C8: when open_file has run the editor command for a file and the editor
\* was unreachable, the panel has shown the failure to the user, has raised
\* nothing and is still running.
C8_OpenFailureReported ==
    (last.op = "open" /\ last.editor = "unreachable") =>
        /\ dialog # "none" \/ stdout # "none"
        /\ raised = "none"
        /\ running

\* the node copy(src, dest_dir) would write: dest_dir's child named as the
\* last component of src
PasteTarget(f, selected_path, urls) ==
    Append(Split(FindEnclosingDir(f, selected_path).val),
           Split(urls[1].path)[Len(Split(urls[1].path))])

\* a Paste step whose copy(src, dest_dir) has a dest_dir
PasteStep ==
    /\ last'.op = "Paste"
    /\ Len(clipboard) = 1
    /\ FindEnclosingDir(fs, last'.path).some

\* C9 as claimed: a copy into a directory that has an entry of any kind
\* named basename(src) writes nothing, prints the skip and raises nothing.
C9_CopySkipsAnyEntry ==
    [][(PasteStep /\ PasteTarget(fs, last'.path, clipboard) \in DOMAIN fs) =>
           /\ fs' = fs
           /\ stdout' = "already exists, skipping"
           /\ raised' = "none" /\ running'
      ]_vars

\* C9, amended: a copy into a directory that has a file, a directory, or a
\* symlink to an existing file named basename(src) writes nothing, prints
\* the skip and raises nothing.  (A dangling symlink of that name is not
\* taken for an existing destination.)
C9_CopySkipsExisting ==
    [][( /\ PasteStep
         /\ PasteTarget(fs, last'.path, clipboard) \in DOMAIN fs
         /\ fs[PasteTarget(fs, last'.path, clipboard)] # Symlink("missing") ) =>
           /\ fs' = fs
           /\ stdout' = "already exists, skipping"
           /\ raised' = "none" /\ running'
      ]_vars

C9_Witness ==
    /\ last.op = "Paste"
    /\ stdout = "already exists, skipping"
    /\ Len(clipboard) = 1
    /\ Split(clipboard[1].path) \in DOMAIN fs
    /\ fs[Split(clipboard[1].path)] = File("x")
    /\ \E n \in DOMAIN fs \ {<<>>, Split(clipboard[1].path)} :
           /\ n[Len(n)] = Split(clipboard[1].path)[Len(Split(clipboard[1].path))]
           /\ n = PasteTarget(fs, last.path, clipboard)
           /\ fs[n] = File("y")

\* C10: a Rename, New Folder or New File given a name that contains "/"
\* leaves the file system exactly as it was.
C10_SlashNamesRejected ==
    [][( /\ last'.op \in {"Rename", "New Folder", "New File"}
         /\ last'.name.some
         /\ HasSlash(last'.name.val) ) => fs' = fs
      ]_vars

\* the handlers that show_menu runs after computing enclosing_dir
MenuOps == {"New Folder", "New File", "Rename", "Copy", "Paste"}

\* C11: find_enclosing_dir(p) returns p itself when p is a directory, and
\* when p is a file it returns the path of the directory that holds p.
C11_EnclosingDirOfDirAndFile ==
    [][last'.op \in MenuOps =>
         /\ OsPathIsdir(fs, last'.path) => enclosing' = Some(last'.path)
         /\ ( /\ LExists(fs, last'.path)
              /\ fs[Split(last'.path)].kind = "file" ) =>
                /\ enclosing'.some
                /\ Split(enclosing'.val) =
                       SubSeq(Split(last'.path), 1, Len(Split(last'.path)) - 1)
                /\ OsPathIsdir(fs, enclosing'.val)
      ]_vars

C11_Witness ==
    /\ last.op = "New File"
    /\ last.path = Str(<<<<"a">>, <<"a">>>>)
    /\ last.name = Some(<<"b">>)
    /\ enclosing = Some(Str(<<<<"a">>>>))
    /\ raised = "none"

\* what a copy into a directory without an entry named basename(src) is to
\* do: raise nothing and change the file system in one place only, where
\* dest_dir/basename(src) now holds what src holds
CopiedIdentically ==
    /\ raised' = "none" /\ running'
    /\ stdout' = "Pasting"
    /\ DOMAIN fs' = DOMAIN fs \cup {PasteTarget(fs, last'.path, clipboard)}
    /\ \A n \in DOMAIN fs : fs'[n] = fs[n]
    /\ fs'[PasteTarget(fs, last'.path, clipboard)].kind =
           (IF fs[Split(clipboard[1].path)].kind = "dir" THEN "dir" ELSE "file")
    /\ fs'[PasteTarget(fs, last'.path, clipboard)].data =
           fs[Split(clipboard[1].path)].data

\* C12 as claimed: copy(src, dest_dir) of any existing src into a directory
\* that has no entry named basename(src) creates dest_dir/basename(src) with
\* the content of src and leaves src and every other entry unchanged.
C12_CopyCreatesIdentical ==
    [][( /\ PasteStep
         /\ OsPathExists(fs, clipboard[1].path)
         /\ PasteTarget(fs, last'.path, clipboard) \notin DOMAIN fs )
       => CopiedIdentically
      ]_vars

\* C12, amended: copy(src, dest_dir) of a src that is a file into a directory
\* that has no entry named basename(src) creates the file
\* dest_dir/basename(src) with the content of src and leaves src and every
\* other entry unchanged.  (A src that is a directory is not copied.)
C12_CopyCreatesFile ==
    [][( /\ PasteStep
         /\ OsPathIsfile(fs, clipboard[1].path)
         /\ PasteTarget(fs, last'.path, clipboard) \notin DOMAIN fs )
       => CopiedIdentically
      ]_vars

C12_Witness ==
    /\ last.op = "Paste"
    /\ stdout = "Pasting"
    /\ raised = "none"
    /\ Len(clipboard) = 1
    /\ enclosing.some
    /\ OsPathIsfile(fs, clipboard[1].path)
    /\ fs[Split(clipboard[1].path)] = File("y")
    /\ Append(Split(enclosing.val), Split(clipboard[1].path)[Len(Split(clipboard[1].path))])
           \in DOMAIN fs \ {Split(clipboard[1].path)}
    /\ fs[Append(Split(enclosing.val),
                 Split(clipboard[1].path)[Len(Split(clipboard[1].path))])] = File("y")

(***************************************************************************)
(* Properties of Spec: the two threads of a panel.                         *)
(***************************************************************************)
\* C13: a step of the listener thread neither reads nor changes the panel's
\* visibility: what isHidden() returns is seen, and show() and hide() are
\* called, on the GUI thread only.
C13_VisibilityOnGuiThreadOnly ==
    [][\A p \in Procs :
         (dpc'[p] # dpc[p] /\ pc'[p] = pc[p]) =>
             /\ window'[p] = window[p]
             /\ seen'[p] = seen[p]
      ]_vars

StartedBefore(p, q) ==
    \E i, j \in DOMAIN started : i < j /\ started[i] = p /\ started[j] = q

Constructed(p) ==
    /\ cwdStatus[p] = "0"
    /\ {"gui", "editor", "rooted", "shown"} \subseteq effects[p]

\* C16: a process whose listener exists, or has bound or unlinked anything,
\* has a constructed panel, and toggle_show runs only on a rooted panel with
\* a window; datagrams wait only in bound sockets; and a toggle client that
\* connects while a panel of its server name has not bound yet puts nothing
\* into that panel's socket, and fails with status 1 unless another
\* listener holds the endpoint.
C16_BindAfterConstruction ==
    /\ [](\A p \in Procs :
            /\ ( \/ dpc[p] # "none"
                 \/ sock[p] # "none"
                 \/ effects[p] \cap {"daemon", "bind", "unlink"} # {}
                 \/ callbacks[p] > 0 ) => Constructed(p)
            /\ dpc[p] \in {"toggle_show", "show_or_hide"} =>
                   window[p] \in {"shown", "hidden"} /\ root[p] # "none"
            /\ queue[p] # <<>> => sock[p] = "open")
    /\ [][\A c, p \in Procs :
            ( /\ pc[c] = "run_toggle" /\ pc'[c] # "run_toggle"
              /\ args[p].server_name = args[c].server_name
              /\ pc[p] \in {"get_cwd", "start_daemon", "exec"}
              /\ sock[p] = "none" ) =>
                /\ peer'[c] # p
                /\ queue'[p] = <<>>
                /\ ~Listening(SocketName(args[c].server_name)) =>
                       pc'[c] = "exited" /\ exitStatus'[c] = "1" /\ sent'[c] = 0
         ]_vars

C16_Witness ==
    \E c, p \in Procs :
        /\ p < c
        /\ args[c].toggle /\ ~args[p].toggle
        /\ args[p].server_name = args[c].server_name
        /\ exitStatus[c] = "1" /\ sent[c] = 0
        /\ pc[p] = "exec" /\ window[p] = "shown" /\ root[p] # "none"
        /\ dpc[p] = "bind" /\ sock[p] = "none"

\* C17: no process whose event loop has returned is kept from ending by its
\* listener: none is waiting in interpreter shutdown for a Daemon thread
\* that is blocked in recv with nothing to receive.
C17_QuitNotHeldByListener ==
    \A p \in Procs :
        ~( /\ pc[p] = "join"
           /\ exitStatus[p] = "none"
           /\ dpc[p] = "recv"
           /\ queue[p] = <<>> )

(***************************************************************************)
(* Properties of SpecFS: the name dialog and the enclosing directory.      *)
(***************************************************************************)
\* C18: a New Folder, New File or Rename whose dialog gave no name (it was
\* cancelled, or confirmed empty) raises nothing, leaves the file system as
\* it was and leaves the panel running.
C18_NoNameNoEffect ==
    [][( /\ last'.op \in {"New Folder", "New File", "Rename"}
         /\ ~last'.name.some ) =>
           /\ raised' = "none"
           /\ running'
           /\ fs' = fs
      ]_vars

\* C19: whenever show_menu has computed enclosing_dir for New Folder, New
\* File, Rename or Paste, whatever path was selected, it is a path, and the
\* path of an existing directory.
C19_EnclosingDirDefined ==
    [][last'.op \in {"New Folder", "New File", "Rename", "Paste"} =>
         /\ enclosing'.some
         /\ OsPathIsdir(fs, enclosing'.val)
      ]_vars

====
